---- MODULE Spec2Model ----
(***************************************************************************)
(* Model of the synthetic dataset generator (generate_data.py), of the     *)
(* file hand-over to train_classifier.py and app.py, and of the report     *)
(* predict_breakdown builds.                                               *)
(*                                                                         *)
(* The script runs top to bottom once.  Its state is the two files it      *)
(* touches, the two configured targets, the working table df, the row      *)
(* counts it derives, the synthesized tables, and the position in the      *)
(* script (pc).  Random draws are nondeterministic choices.                *)
(*                                                                         *)
(* Numbers.  A float cell is a record [nan, v]: nan says the cell is NaN,  *)
(* v is its value otherwise.  A standard deviation is kept exactly as the  *)
(* record [nan, num, den] whose value is sqrt(num/den); a mean is          *)
(* [nan, num, den] with value num/den.                                     *)
(***************************************************************************)
EXTENDS Integers, Sequences, FiniteSets, TLC

VARIABLES
    original_file,            \* the input CSV: [exists, columns, rows]
    output_file,              \* the output CSV: [exists, rows]
    N_TOTAL,                  \* configured total target
    N_BREAKDOWNS_TARGET,      \* configured breakdown target
    pc,                       \* position of the script
    df,                       \* working table (date column dropped)
    CAN_GENERATE_BREAKDOWNS,
    n_new_breakdowns,
    n_new_healthy,
    new_healthy_df,
    new_breakdown_df,
    final_df,
    printed,                  \* what the script has printed, in order
    runs,                     \* generator runs started so far
    model_file,               \* the pickled model: [exists]
    trainer,                  \* how the last train_classifier.py run ended
    app,                      \* app.py: [status, routes]
    response                  \* the last answer of /predict (empty: none yet)

\* What the generator never touches.
other_vars == <<runs, model_file, trainer, app, response>>

vars == <<original_file, output_file, N_TOTAL, N_BREAKDOWNS_TARGET, pc, df,
          CAN_GENERATE_BREAKDOWNS, n_new_breakdowns, n_new_healthy,
          new_healthy_df, new_breakdown_df, final_df, printed,
          runs, model_file, trainer, app, response>>

----------------------------------------------------------------------------
(* Bounds of the model *)

MaxRows == 3                  \* input files hold 1..MaxRows rows
MaxTotal == 4                 \* N_TOTAL ranges over 0..MaxTotal
MaxBreakdownTarget == 3       \* N_BREAKDOWNS_TARGET ranges over 0..MaxBreakdownTarget
MaxRuns == 2                  \* the generator is started at most MaxRuns times
MaxRerunRows == 2             \* input rows when the generator is run again
MaxRerunTotal == 2            \* N_TOTAL ranges over 0..MaxRerunTotal then
MaxPipelineRows == 1          \* input rows when the whole pipeline is run
MaxPipelineTotal == 1         \* both targets range over 0..MaxPipelineTotal then

DeviceNames == {"ECG", "MRI"}

\* Sensor readings an input row can carry (usage_hours, temperature, error_count).
Readings == { [usage_hours |-> 0, temperature |-> 37, error_count |-> 0],
              [usage_hours |-> 4, temperature |-> 38, error_count |-> 1] }

\* Values a draw from a normal distribution with positive spread can take:
\* for usage_hours and error_count (clipped afterwards), and for temperature.
SampleValues == {-3, 2}
TemperatureSamples == {-5}

DateValue == "2024-01-01"

----------------------------------------------------------------------------
(* Float cells *)

NaN == [nan |-> TRUE, v |-> 0]
Num(x) == [nan |-> FALSE, v |-> x]

\* The constants 1.0 and 0.5 as standard deviations (sqrt(1/1), sqrt(1/4)).
StdOne == [nan |-> FALSE, num |-> 1, den |-> 1]
StdHalf == [nan |-> FALSE, num |-> 1, den |-> 4]
StdNaN == [nan |-> TRUE, num |-> 0, den |-> 1]

\* b > a on standard deviations; any comparison with NaN is false.
StdGreater(b, a) ==
    /\ ~a.nan
    /\ ~b.nan
    /\ b.num * a.den > a.num * b.den

\* Python's built-in max(a, b): a unless b > a.
PyMax(a, b) == IF StdGreater(b, a) THEN b ELSE a

RECURSIVE SumSeq(_)
SumSeq(s) == IF s = <<>> THEN 0 ELSE Head(s) + SumSeq(Tail(s))

Column(table, col) == [i \in 1..Len(table) |-> table[i][col]]
FloatColumn(table, col) == [i \in 1..Len(table) |-> table[i][col].v]

\* pandas mean of a float column: NaN on an empty column.
MeanOf(xs) ==
    IF Len(xs) = 0 THEN [nan |-> TRUE, num |-> 0, den |-> 1]
    ELSE [nan |-> FALSE, num |-> SumSeq(xs), den |-> Len(xs)]

\* pandas std (ddof = 1): NaN for fewer than two values,
\* else sqrt((n * sum x^2 - (sum x)^2) / (n * (n - 1))).
StdOf(xs) ==
    IF Len(xs) < 2 THEN StdNaN
    ELSE LET n == Len(xs)
             sq == [i \in 1..n |-> xs[i] * xs[i]]
         IN [nan |-> FALSE,
             num |-> n * SumSeq(sq) - SumSeq(xs) * SumSeq(xs),
             den |-> n * (n - 1)]

\* np.random.normal(mean, std): NaN when a parameter is NaN, the mean itself
\* when the spread is zero (all profiled values are then equal to the mean),
\* any real otherwise.
Normal(mean, std, samples) ==
    IF mean.nan \/ std.nan THEN {NaN}
    ELSE IF std.num = 0 THEN {Num(mean.num \div mean.den)}
    ELSE {Num(x) : x \in samples}

\* np.clip(x, a_min=0, a_max=None); NaN stays NaN.
Clip(x) == IF x.nan THEN x ELSE IF x.v < 0 THEN Num(0) ELSE x

\* value_counts(normalize=True).index: the values observed in a column.
Observed(table, col) == {table[i][col] : i \in 1..Len(table)}

----------------------------------------------------------------------------
(* Tables *)

\* One parsed row of the input: numeric text becomes a float cell.
ParseRow(r) ==
    [c \in DOMAIN r |->
        IF c \in {"usage_hours", "temperature"} THEN Num(r[c]) ELSE r[c]]

\* pd.read_csv(original_file)
ReadCsv(file) == [i \in 1..Len(file.rows) |-> ParseRow(file.rows[i])]

\* df.drop(columns=['date']), applied only when the column is there.
DropDate(table, columns) ==
    IF "date" \in columns
    THEN [i \in 1..Len(table) |->
            [c \in DOMAIN table[i] \ {"date"} |-> table[i][c]]]
    ELSE table

IsHealthy(r) == r.breakdown_flag = 0
IsBreakdown(r) == r.breakdown_flag = 1

PartitionHealthy(table) == SelectSeq(table, IsHealthy)
PartitionBreakdown(table) == SelectSeq(table, IsBreakdown)

df_healthy == PartitionHealthy(df)
df_breakdown == PartitionBreakdown(df)

n_original_breakdowns == Len(df_breakdown)
n_original_healthy == Len(df_healthy)

----------------------------------------------------------------------------
(* Generation parameters *)

usage_mean_h == MeanOf(FloatColumn(df_healthy, "usage_hours"))
usage_std_h == StdOf(FloatColumn(df_healthy, "usage_hours"))
temp_mean_h == MeanOf(FloatColumn(df_healthy, "temperature"))
temp_std_h == StdOf(FloatColumn(df_healthy, "temperature"))
error_probs_h == Observed(df_healthy, "error_count")
\* Variant: the device names are taken from the whole table.
DevicesOfWholeTable == Observed(df, "device_name")
healthy_devices_probs == Observed(df_healthy, "device_name")

usage_mean_b == MeanOf(FloatColumn(df_breakdown, "usage_hours"))
usage_std_b == PyMax(StdOf(FloatColumn(df_breakdown, "usage_hours")), StdOne)
temp_mean_b == MeanOf(FloatColumn(df_breakdown, "temperature"))
temp_std_b == PyMax(StdOf(FloatColumn(df_breakdown, "temperature")), StdOne)
error_mean_b == MeanOf(Column(df_breakdown, "error_count"))
error_std_b == PyMax(StdOf(Column(df_breakdown, "error_count")), StdHalf)
breakdown_devices_probs == Observed(df_breakdown, "device_name")

\* The int64 minimum, scaled to the model's integers.
IntMin == 0 - 2147483647

\* ndarray.astype(int) of one float: the value itself, and for NaN whatever
\* the platform's conversion yields (the minimum integer or zero).
AsInt(x) == IF x.nan THEN {IntMin, 0} ELSE {x.v}

\* One synthesized healthy row (the i-th entries of the five arrays).
HealthyRows ==
    { [device_name |-> d, usage_hours |-> Clip(u), temperature |-> t,
       error_count |-> e, breakdown_flag |-> 0] :
        d \in healthy_devices_probs,
        u \in Normal(usage_mean_h, usage_std_h, SampleValues),
        t \in Normal(temp_mean_h, temp_std_h, TemperatureSamples),
        e \in error_probs_h }

\* One synthesized breakdown row.  np.round is the identity on the integral
\* draws of the model and keeps NaN.
BreakdownRows ==
    UNION { { [device_name |-> d, usage_hours |-> Clip(u), temperature |-> t,
               error_count |-> e, breakdown_flag |-> 1] :
                d \in breakdown_devices_probs,
                u \in Normal(usage_mean_b, usage_std_b, SampleValues),
                t \in Normal(temp_mean_b, temp_std_b, TemperatureSamples),
                e \in AsInt(Clip(x)) } :
            x \in Normal(error_mean_b, error_std_b, SampleValues) }

\* final_df.sample(frac=1): every reordering of the table.
Shuffles(table) ==
    { [i \in 1..Len(table) |-> table[p[i]]] : p \in Permutations(1..Len(table)) }

----------------------------------------------------------------------------
(* Initial states *)

FileRows(columns) ==
    { [c \in columns |->
         CASE c = "device_name" -> d
           [] c = "usage_hours" -> m.usage_hours
           [] c = "temperature" -> m.temperature
           [] c = "error_count" -> m.error_count
           [] c = "breakdown_flag" -> f
           [] c = "date" -> DateValue] :
        d \in DeviceNames, m \in Readings, f \in {0, 1} }

RequiredColumns ==
    {"device_name", "usage_hours", "temperature", "error_count", "breakdown_flag"}

\* The script never looks at the order of the input rows, so input files are
\* listed in one order only: by flag, then reading, then device.
RowRank(r) ==
    4 * r.breakdown_flag + r.error_count + r.error_count
      + (IF r.device_name = "ECG" THEN 0 ELSE 1)

Ordered(rows) ==
    \A i \in 1..(Len(rows) - 1) : RowRank(rows[i]) <= RowRank(rows[i + 1])

InputFiles ==
    {[exists |-> FALSE, columns |-> {}, rows |-> <<>>]} \cup
    UNION { UNION { { [exists |-> TRUE, columns |-> cols, rows |-> rows] :
                        rows \in {s \in [1..n -> FileRows(cols)] : Ordered(s)} } :
                    n \in 1..MaxRows } :
            cols \in {RequiredColumns, RequiredColumns \cup {"date"}} }

\* What a previous run may have left at the output path.
StaleRow ==
    [device_name |-> "ECG", usage_hours |-> Num(0), temperature |-> Num(37),
     error_count |-> 0, breakdown_flag |-> 0]

OutputFiles ==
    { [exists |-> FALSE, rows |-> <<>>], [exists |-> TRUE, rows |-> <<StaleRow>>] }

Init ==
    /\ original_file \in InputFiles
    /\ output_file \in OutputFiles
    /\ N_TOTAL \in 0..MaxTotal
    /\ N_BREAKDOWNS_TARGET \in 0..MaxBreakdownTarget
    /\ pc = "start"
    /\ df = <<>>
    /\ CAN_GENERATE_BREAKDOWNS = FALSE
    /\ n_new_breakdowns = 0
    /\ n_new_healthy = 0
    /\ new_healthy_df = <<>>
    /\ new_breakdown_df = <<>>
    /\ final_df = <<>>
    /\ printed = <<>>
    /\ runs = 1
    /\ model_file = [exists |-> FALSE]
    /\ trainer = "not_run"
    /\ app = [status |-> "not_started", routes |-> {}]
    /\ response = <<>>

----------------------------------------------------------------------------
(* The script *)

\* Variant: the missing-input branch also leaves an empty output file.
ReportMissingWritesEmpty ==
    /\ UNCHANGED other_vars
    /\ pc = "start"
    /\ ~original_file.exists
    /\ printed' = <<"loading", "error_not_found">>
    /\ output_file' = [exists |-> TRUE, rows |-> <<>>]
    /\ pc' = "exit"
    /\ UNCHANGED <<original_file, N_TOTAL, N_BREAKDOWNS_TARGET, df,
                   CAN_GENERATE_BREAKDOWNS, n_new_breakdowns, n_new_healthy,
                   new_healthy_df, new_breakdown_df, final_df>>

\* Lines 12-16: the input file is missing.
ReportMissing ==
    /\ UNCHANGED other_vars
    /\ pc = "start"
    /\ ~original_file.exists
    /\ printed' = <<"loading", "error_not_found">>
    /\ pc' = "exit"
    /\ UNCHANGED <<original_file, output_file, N_TOTAL, N_BREAKDOWNS_TARGET, df,
                   CAN_GENERATE_BREAKDOWNS, n_new_breakdowns, n_new_healthy,
                   new_healthy_df, new_breakdown_df, final_df>>

\* Variant: the original breakdown rows are not subtracted from the target.
NewBreakdownsNotSubtracting(n_orig) ==
    IF n_orig = 0 THEN 0 ELSE N_BREAKDOWNS_TARGET

\* Variant: the zero-breakdown branch does not reset the count.
NewBreakdownsIgnoringEmpty(n_orig) == N_BREAKDOWNS_TARGET - n_orig

\* Lines 31-39: how many breakdown rows to synthesize.
NewBreakdowns(n_orig) ==
    IF n_orig = 0 THEN 0 ELSE N_BREAKDOWNS_TARGET - n_orig

\* Line 43: how many healthy rows to synthesize.
NewHealthy(n_h, n_b, n_new_b) == N_TOTAL - n_h - n_b - n_new_b

\* Lines 18-44: load, drop the date column, partition, count.
Load ==
    /\ UNCHANGED other_vars
    /\ pc = "start"
    /\ original_file.exists
    /\ LET table == DropDate(ReadCsv(original_file), original_file.columns)
           n_h == Len(PartitionHealthy(table))
           n_b == Len(PartitionBreakdown(table))
           n_new_b == NewBreakdowns(n_b)
       IN /\ df' = table
          /\ CAN_GENERATE_BREAKDOWNS' = (n_b # 0)
          /\ n_new_breakdowns' = n_new_b
          /\ n_new_healthy' = NewHealthy(n_h, n_b, n_new_b)
          /\ printed' = <<"loading", "found">> \o
                        (IF n_b = 0 THEN <<"warning_no_breakdown">>
                                    ELSE <<"will_generate_breakdown">>) \o
                        <<"will_generate_healthy">>
    /\ pc' = "generate_healthy"
    /\ UNCHANGED <<original_file, output_file, N_TOTAL, N_BREAKDOWNS_TARGET,
                   new_healthy_df, new_breakdown_df, final_df>>

\* np.random.choice(index, size, p) raises ValueError on a negative size and
\* on an empty index (its probabilities cannot sum to 1).
ChoiceRaises(index, size) == size < 0 \/ index = {}

\* Variant: the healthy rows are written out as soon as they are synthesized.
GenerateHealthySavesEarly ==
    /\ UNCHANGED other_vars
    /\ pc = "generate_healthy"
    /\ IF ChoiceRaises(healthy_devices_probs, n_new_healthy)
       THEN /\ pc' = "raised"
            /\ UNCHANGED <<new_healthy_df, printed, output_file>>
       ELSE /\ new_healthy_df' \in [1..n_new_healthy -> HealthyRows]
            /\ output_file' = [exists |-> TRUE, rows |-> df \o new_healthy_df']
            /\ printed' = Append(printed, "generated_healthy")
            /\ pc' = "generate_breakdown"
    /\ UNCHANGED <<original_file, N_TOTAL, N_BREAKDOWNS_TARGET, df,
                   CAN_GENERATE_BREAKDOWNS, n_new_breakdowns, n_new_healthy,
                   new_breakdown_df, final_df>>

\* Lines 72-80: synthesize the healthy rows.
GenerateHealthy ==
    /\ UNCHANGED other_vars
    /\ pc = "generate_healthy"
    /\ IF ChoiceRaises(healthy_devices_probs, n_new_healthy)
       THEN /\ pc' = "raised"
            /\ UNCHANGED <<new_healthy_df, printed>>
       ELSE /\ new_healthy_df' \in [1..n_new_healthy -> HealthyRows]
            /\ printed' = Append(printed, "generated_healthy")
            /\ pc' = "generate_breakdown"
    /\ UNCHANGED <<original_file, output_file, N_TOTAL, N_BREAKDOWNS_TARGET, df,
                   CAN_GENERATE_BREAKDOWNS, n_new_breakdowns, n_new_healthy,
                   new_breakdown_df, final_df>>

\* Lines 83-94: synthesize the breakdown rows, if possible.
GenerateBreakdown ==
    /\ UNCHANGED other_vars
    /\ pc = "generate_breakdown"
    /\ IF CAN_GENERATE_BREAKDOWNS
       THEN IF ChoiceRaises(breakdown_devices_probs, n_new_breakdowns)
            THEN /\ pc' = "raised"
                 /\ UNCHANGED <<new_breakdown_df, printed>>
            ELSE /\ new_breakdown_df' \in [1..n_new_breakdowns -> BreakdownRows]
                 /\ printed' = Append(printed, "generated_breakdown")
                 /\ pc' = "combine"
       ELSE /\ new_breakdown_df' = <<>>
            /\ pc' = "combine"
            /\ UNCHANGED printed
    /\ UNCHANGED <<original_file, output_file, N_TOTAL, N_BREAKDOWNS_TARGET, df,
                   CAN_GENERATE_BREAKDOWNS, n_new_breakdowns, n_new_healthy,
                   new_healthy_df, final_df>>

\* Variant: only the synthesized tables are concatenated.
ConcatWithoutOriginal(a, b, c) == b \o c

\* pd.concat([df, new_healthy_df, new_breakdown_df], ignore_index=True)
Concat(a, b, c) == a \o b \o c

\* Variant: the table is appended to the output file instead of replacing it.
CombineAndAppend ==
    /\ UNCHANGED other_vars
    /\ pc = "combine"
    /\ final_df' \in Shuffles(Concat(df, new_healthy_df, new_breakdown_df))
    /\ output_file' = [exists |-> TRUE, rows |-> output_file.rows \o final_df']
    /\ printed' = Append(printed, "success")
    /\ pc' = "exit"
    /\ UNCHANGED <<original_file, N_TOTAL, N_BREAKDOWNS_TARGET, df,
                   CAN_GENERATE_BREAKDOWNS, n_new_breakdowns, n_new_healthy,
                   new_healthy_df, new_breakdown_df>>

\* Lines 97-108: combine, shuffle and write the output file.
CombineAndSave ==
    /\ UNCHANGED other_vars
    /\ pc = "combine"
    /\ final_df' \in Shuffles(Concat(df, new_healthy_df, new_breakdown_df))
    /\ output_file' = [exists |-> TRUE, rows |-> final_df']
    /\ printed' = Append(printed, "success")
    /\ pc' = "exit"
    /\ UNCHANGED <<original_file, N_TOTAL, N_BREAKDOWNS_TARGET, df,
                   CAN_GENERATE_BREAKDOWNS, n_new_breakdowns, n_new_healthy,
                   new_healthy_df, new_breakdown_df>>

Next ==
    \/ ReportMissing
    \/ Load
    \/ GenerateHealthy
    \/ GenerateBreakdown
    \/ CombineAndSave

Spec == Init /\ [][Next]_vars

----------------------------------------------------------------------------
(* Running the generator again *)

\* The script is started again: a fresh process, the files as they were left.
Rerun ==
    /\ pc \in {"exit", "raised"}
    /\ runs < MaxRuns
    /\ runs' = runs + 1
    /\ pc' = "start"
    /\ df' = <<>>
    /\ CAN_GENERATE_BREAKDOWNS' = FALSE
    /\ n_new_breakdowns' = 0
    /\ n_new_healthy' = 0
    /\ new_healthy_df' = <<>>
    /\ new_breakdown_df' = <<>>
    /\ final_df' = <<>>
    /\ printed' = <<>>
    /\ UNCHANGED <<original_file, output_file, N_TOTAL, N_BREAKDOWNS_TARGET,
                   model_file, trainer, app, response>>

NextRerun ==
    \/ ReportMissing
    \/ Load
    \/ GenerateHealthy
    \/ GenerateBreakdown
    \/ CombineAndSave
    \/ Rerun

\* Successive runs start in a directory with no output yet; the input file,
\* when there is one, has its date column.
InitRerun ==
    /\ Init
    /\ original_file.exists => "date" \in original_file.columns
    /\ Len(original_file.rows) <= MaxRerunRows
    /\ ~output_file.exists
    /\ N_TOTAL <= MaxRerunTotal

SpecRerun == InitRerun /\ [][NextRerun]_vars

----------------------------------------------------------------------------
(* The diagnostic report of app.py *)

\* Thresholds on the failure probability, in thousandths (0.5, 0.1, 0.02).
CriticalPermille == 500
HighRiskPermille == 100
ElevatedPermille == 20

\* Thresholds on the sensor inputs.
HighTemperature == 90
ElevatedTemperature == 60
HighErrorCount == 10
HighUsageHours == 8000

\* Failure probabilities the classifier may return, in thousandths.
Probabilities == {0, 20, 21, 100, 101, 500, 501, 1000}

\* Request values.  error_count is given in tenths: int() truncates it.
RequestTemperatures == {40, 60, 61, 90, 91}
RequestErrorTenths == {0, 5, 10, 105, 110}
RequestUsageHours == {1000, 8000, 8001}

DefaultStep == "No immediate action required. Continue routine monitoring."

\* Python's int() on a number given in tenths: truncation toward zero.
PyInt(tenths) == IF tenths >= 0 THEN tenths \div 10 ELSE 0 - ((0 - tenths) \div 10)

\* Variant: the tests run in the wrong order, the lower threshold first.
StatusLabelLowestFirst(fail_probability) ==
    IF fail_probability > ElevatedPermille THEN "Elevated"
    ELSE IF fail_probability > HighRiskPermille THEN "High Risk"
    ELSE IF fail_probability > CriticalPermille THEN "Critical"
    ELSE "Low Risk"

\* Lines 68-86: the if / elif chain on the failure probability.
StatusLabel(fail_probability) ==
    IF fail_probability > CriticalPermille THEN "Critical"
    ELSE IF fail_probability > HighRiskPermille THEN "High Risk"
    ELSE IF fail_probability > ElevatedPermille THEN "Elevated"
    ELSE "Low Risk"

StatusColor(label) ==
    CASE label = "Critical" -> "#dc3545"
      [] label = "High Risk" -> "#fd7e14"
      [] label = "Elevated" -> "#ffc107"
      [] label = "Low Risk" -> "#198754"

RiskFinding(label) ==
    CASE label = "Critical" -> <<"CRITICAL RISK">>
      [] label = "High Risk" -> <<"HIGH RISK">>
      [] label = "Elevated" -> <<"ELEVATED RISK">>
      [] label = "Low Risk" -> <<"LOW RISK">>

RiskStep(label) ==
    CASE label = "Critical" ->
            <<"Schedule immediate inspection and cease operation if possible.">>
      [] label = "High Risk" ->
            <<"Schedule preventative maintenance within the next 1-2 weeks.">>
      [] label = "Elevated" ->
            <<"Monitor machine closely. Check for physical anomalies.">>
      [] label = "Low Risk" -> <<>>

\* Lines 89-93.
TemperatureFinding(temperature) ==
    IF temperature > HighTemperature THEN <<"HIGH TEMP">>
    ELSE IF temperature > ElevatedTemperature THEN <<"ELEVATED TEMP">>
    ELSE <<>>

TemperatureStep(temperature) ==
    IF temperature > HighTemperature
    THEN <<"Check cooling systems regardless of failure risk.">>
    ELSE <<>>

\* Lines 95-99.
ErrorFinding(error_count) ==
    IF PyInt(error_count) > HighErrorCount THEN <<"HIGH ERROR COUNT">>
    ELSE IF PyInt(error_count) > 0 THEN <<"minor errors logged">>
    ELSE <<>>

ErrorStep(error_count) ==
    IF PyInt(error_count) > HighErrorCount
    THEN <<"Run diagnostics and check error logs.">>
    ELSE <<>>

\* Lines 101-102.
UsageFinding(usage_hours) ==
    IF usage_hours > HighUsageHours THEN <<"HIGH USAGE">> ELSE <<>>

\* Lines 104-105.
WithDefault(next_steps) ==
    IF next_steps = <<>> THEN <<DefaultStep>> ELSE next_steps

\* Lines 32-114.  fail_probability is what model.predict_proba returned;
\* model.predict returns the class with the larger probability.
predict_breakdown(device_name, usage_hours, temperature, error_count, fail_probability) ==
    LET status_label == StatusLabel(fail_probability)
    IN [prediction_class |-> IF fail_probability > CriticalPermille THEN 1 ELSE 0,
        probability_percent |-> fail_probability,
        status_label |-> status_label,
        color |-> StatusColor(status_label),
        findings |-> RiskFinding(status_label) \o TemperatureFinding(temperature)
                       \o ErrorFinding(error_count) \o UsageFinding(usage_hours),
        next_steps |-> WithDefault(RiskStep(status_label) \o TemperatureStep(temperature)
                                     \o ErrorStep(error_count))]

\* The JSON bodies /predict may receive.  parseable is false when float() or
\* int() rejects a value.
Requests ==
    [device : {"ECG Monitor"}, usage_hours : RequestUsageHours,
     temperature : RequestTemperatures, error_count : RequestErrorTenths,
     parseable : {TRUE}]
    \cup {[device |-> "ECG Monitor", usage_hours |-> 1000, temperature |-> 40,
           error_count |-> 0, parseable |-> FALSE]}

\* Lines 377-394: the /predict route.  The model follows the application up
\* to its first answer.
predict_api ==
    /\ app.status = "serving"
    /\ response = <<>>
    /\ "/predict" \in app.routes
    /\ \E data \in Requests, fail_probability \in Probabilities :
          response' =
            IF data.parseable
            THEN <<[code |-> 200, request |-> data,
                    result |-> predict_breakdown(data.device, data.usage_hours,
                                                 data.temperature, data.error_count,
                                                 fail_probability)]>>
            ELSE <<[code |-> 500, request |-> data, result |-> "error"]>>
    /\ UNCHANGED <<original_file, output_file, N_TOTAL, N_BREAKDOWNS_TARGET, pc, df,
                   CAN_GENERATE_BREAKDOWNS, n_new_breakdowns, n_new_healthy,
                   new_healthy_df, new_breakdown_df, final_df, printed,
                   runs, model_file, trainer, app>>

----------------------------------------------------------------------------
(* The pipeline over the files: generator, trainer, web application *)

GeneratorVars ==
    <<original_file, output_file, N_TOTAL, N_BREAKDOWNS_TARGET, pc, df,
      CAN_GENERATE_BREAKDOWNS, n_new_breakdowns, n_new_healthy,
      new_healthy_df, new_breakdown_df, final_df, printed, runs>>

\* Variant: the trainer looks for, and trains on, the original file.
RunTrainerOnOriginal ==
    /\ IF ~original_file.exists
       THEN /\ trainer' = "exit1"
            /\ model_file' = model_file
       ELSE \/ /\ trainer' = "raised"
               /\ model_file' = model_file
            \/ /\ trainer' = "saved"
               /\ model_file' = [exists |-> TRUE]
    /\ UNCHANGED <<GeneratorVars, app, response>>

\* train_classifier.py, one run.  Lines 12-16: without the dataset it exits
\* with status 1.  Lines 19-82 may raise on the data they are given (a class
\* with one row cannot be stratified); line 92 is reached only past them.
RunTrainer ==
    /\ IF ~output_file.exists
       THEN /\ trainer' = "exit1"
            /\ model_file' = model_file
       ELSE \/ /\ trainer' = "raised"
               /\ model_file' = model_file
            \/ /\ trainer' = "saved"
               /\ model_file' = [exists |-> TRUE]
    /\ UNCHANGED <<GeneratorVars, app, response>>

\* app.py, one start.  Lines 18-21: without the model file it exits with
\* status 1, before the routes of lines 362 and 377 are registered.
StartApp ==
    /\ app.status # "serving"
    /\ app' = IF ~model_file.exists
              THEN [status |-> "exit1", routes |-> {}]
              ELSE [status |-> "serving", routes |-> {"/", "/predict"}]
    /\ UNCHANGED <<GeneratorVars, model_file, trainer, response>>

NextPipeline ==
    \/ ReportMissing
    \/ Load
    \/ GenerateHealthy
    \/ GenerateBreakdown
    \/ CombineAndSave
    \/ Rerun
    \/ RunTrainer
    \/ StartApp
    \/ predict_api

\* The pipeline starts from a filesystem holding neither the dataset nor the
\* model, with or without the original file.
InitPipeline ==
    /\ Init
    /\ Len(original_file.rows) <= MaxPipelineRows
    /\ original_file.exists => "date" \in original_file.columns
    /\ ~output_file.exists
    /\ N_TOTAL <= MaxPipelineTotal
    /\ N_BREAKDOWNS_TARGET <= MaxPipelineTotal

SpecPipeline == InitPipeline /\ [][NextPipeline]_vars

----------------------------------------------------------------------------
(* Vocabulary of the properties, stated over the files and the targets *)

\* The run reached its end and wrote the output file.
Wrote == pc = "exit" /\ Len(printed) > 0 /\ printed[Len(printed)] = "success"

\* The run is over: it finished or stopped on an uncaught ValueError.
Terminated == pc \in {"exit", "raised"}

InputIndices == 1..Len(original_file.rows)

OriginalRowCount == Len(original_file.rows)
OriginalBreakdownCount ==
    Cardinality({i \in InputIndices : original_file.rows[i].breakdown_flag = 1})
OriginalHealthyCount ==
    Cardinality({i \in InputIndices : original_file.rows[i].breakdown_flag = 0})

\* The i-th input row as a table row, without its date.
OriginalRow(i) ==
    LET r == original_file.rows[i]
    IN [device_name |-> r.device_name, usage_hours |-> Num(r.usage_hours),
        temperature |-> Num(r.temperature), error_count |-> r.error_count,
        breakdown_flag |-> r.breakdown_flag]

Occurrences(table, row) == Cardinality({i \in 1..Len(table) : table[i] = row})

OriginalOccurrences(row) ==
    Cardinality({i \in InputIndices : OriginalRow(i) = row})

\* Every original row is in the table at least as often as in the input.
HoldsOriginals(table) ==
    \A i \in InputIndices :
        Occurrences(table, OriginalRow(i)) >= OriginalOccurrences(OriginalRow(i))

BreakdownCount(table) == Cardinality({i \in 1..Len(table) : table[i].breakdown_flag = 1})

Max0(x) == IF x < 0 THEN 0 ELSE x

DeviceNamesOfPartition(flag) ==
    {original_file.rows[i].device_name :
        i \in {k \in InputIndices : original_file.rows[k].breakdown_flag = flag}}

\* A standard deviation is a defined number that is at least the floor.
AtLeast(std, floor) == ~std.nan /\ std.num * floor.den >= floor.num * std.den

----------------------------------------------------------------------------
(* C1 *)

\* C1 as stated: in every written output the number of rows with
\* breakdown_flag = 1 is original count + max(0, target - original count),
\* also when the original count is 0.
C1_AsStated ==
    Wrote =>
        BreakdownCount(output_file.rows) =
            OriginalBreakdownCount + Max0(N_BREAKDOWNS_TARGET - OriginalBreakdownCount)

\* C1 (amended): in every written output the number of rows with
\* breakdown_flag = 1 is original count + max(0, target - original count)
\* when the input has a breakdown row, and 0 when it has none.
C1_BreakdownCount ==
    Wrote =>
        BreakdownCount(output_file.rows) =
            IF OriginalBreakdownCount = 0 THEN 0
            ELSE OriginalBreakdownCount
                   + Max0(N_BREAKDOWNS_TARGET - OriginalBreakdownCount)

C1_Witness ==
    /\ Wrote
    /\ OriginalBreakdownCount >= 1
    /\ N_BREAKDOWNS_TARGET > OriginalBreakdownCount
    /\ BreakdownCount(output_file.rows) = N_BREAKDOWNS_TARGET

----------------------------------------------------------------------------
(* C2 *)

\* C2: when the input already holds at least N_BREAKDOWNS_TARGET breakdown
\* rows (and the totals are otherwise consistent), the run synthesizes no
\* breakdown row, completes, and its output holds every original row.
C2_AtOrAboveTarget ==
    ( /\ original_file.exists
      /\ OriginalBreakdownCount >= N_BREAKDOWNS_TARGET
      /\ OriginalHealthyCount >= 1
      /\ N_TOTAL >= OriginalRowCount
      /\ Terminated )
    => ( /\ Wrote
         /\ Len(new_breakdown_df) = 0
         /\ HoldsOriginals(output_file.rows) )

----------------------------------------------------------------------------
(* C3 *)

\* C3: when N_TOTAL - original rows - new breakdown rows is negative, the run
\* raises no error, synthesizes no healthy row and writes an output that
\* holds all original rows.
C3_InconsistentTotals ==
    ( /\ original_file.exists
      /\ OriginalHealthyCount >= 1
      /\ Terminated
      /\ n_new_breakdowns >= 0
      /\ N_TOTAL - OriginalRowCount - n_new_breakdowns < 0 )
    => ( /\ Wrote
         /\ Len(new_healthy_df) = 0
         /\ HoldsOriginals(output_file.rows) )

----------------------------------------------------------------------------
(* C4 *)

\* C4: with both partitions non-empty and N_TOTAL >= original row count, the
\* run completes and the output has exactly N_TOTAL rows, whatever
\* N_BREAKDOWNS_TARGET is.
C4_ExactTotal ==
    ( /\ original_file.exists
      /\ OriginalHealthyCount >= 1
      /\ OriginalBreakdownCount >= 1
      /\ N_TOTAL >= OriginalRowCount
      /\ Terminated )
    => ( /\ Wrote
         /\ Len(output_file.rows) = N_TOTAL )

----------------------------------------------------------------------------
(* C5 *)

C5_Case ==
    /\ original_file.exists
    /\ OriginalBreakdownCount = 0
    /\ N_BREAKDOWNS_TARGET > 0
    /\ N_TOTAL >= OriginalRowCount

----------------------------------------------------------------------------
(* C6 *)

\* C6: for a partition with exactly one row, the standard deviation passed to
\* the sampler is a defined number, at least 1.0 for usage_hours and
\* temperature and at least 0.5 for the breakdown error_count.
C6_FlooredStd ==
    /\ (pc = "generate_healthy" /\ OriginalHealthyCount = 1) =>
          /\ AtLeast(usage_std_h, StdOne)
          /\ AtLeast(temp_std_h, StdOne)
    /\ (pc = "generate_breakdown" /\ CAN_GENERATE_BREAKDOWNS
          /\ OriginalBreakdownCount = 1) =>
          /\ AtLeast(usage_std_b, StdOne)
          /\ AtLeast(temp_std_b, StdOne)
          /\ AtLeast(error_std_b, StdHalf)

----------------------------------------------------------------------------
(* C7 *)

\* C7: when the input file does not exist, every step of the run leaves the
\* output file as it was, loads nothing, synthesizes nothing, and the only
\* step taken reports the error.
C7_MissingInput ==
    [][ ~original_file.exists =>
          /\ output_file' = output_file
          /\ df' = <<>>
          /\ new_healthy_df' = <<>>
          /\ new_breakdown_df' = <<>>
          /\ final_df' = <<>>
          /\ printed' = <<"loading", "error_not_found">>
          /\ pc' = "exit" ]_vars

C7_Witness ==
    /\ ~original_file.exists
    /\ pc = "exit"
    /\ printed = <<"loading", "error_not_found">>
    /\ output_file.exists

----------------------------------------------------------------------------
(* C8 *)

\* C8: in every output the run writes, each original row (date removed)
\* occurs at least as often as in the input.
C8_OriginalsKept == Wrote => HoldsOriginals(output_file.rows)

C8_Witness ==
    /\ Wrote
    /\ "date" \in original_file.columns
    /\ OriginalRowCount >= 2
    /\ Len(new_healthy_df) >= 1
    /\ output_file.rows # Concat(df, new_healthy_df, new_breakdown_df)
    /\ output_file.rows[1].breakdown_flag # OriginalRow(1).breakdown_flag

----------------------------------------------------------------------------
(* C9 *)

\* C9: every synthesized row carries a device_name that occurs in the input
\* rows of its own partition.
C9_DeviceNames ==
    /\ \A i \in 1..Len(new_healthy_df) :
          /\ new_healthy_df[i].breakdown_flag = 0
          /\ new_healthy_df[i].device_name \in DeviceNamesOfPartition(0)
    /\ \A i \in 1..Len(new_breakdown_df) :
          /\ new_breakdown_df[i].breakdown_flag = 1
          /\ new_breakdown_df[i].device_name \in DeviceNamesOfPartition(1)

C9_Witness ==
    /\ Wrote
    /\ DeviceNamesOfPartition(0) = {"ECG"}
    /\ DeviceNamesOfPartition(1) = {"MRI"}
    /\ Len(new_healthy_df) >= 1
    /\ Len(new_breakdown_df) >= 1

----------------------------------------------------------------------------
(* C10 *)

\* C10: every synthesized row has a usage_hours that is a defined number
\* and is at least 0.
C10_UsageHours ==
    /\ \A i \in 1..Len(new_healthy_df) :
          ~new_healthy_df[i].usage_hours.nan /\ new_healthy_df[i].usage_hours.v >= 0
    /\ \A i \in 1..Len(new_breakdown_df) :
          ~new_breakdown_df[i].usage_hours.nan /\ new_breakdown_df[i].usage_hours.v >= 0

----------------------------------------------------------------------------
(* C11 *)

\* C11: every synthesized breakdown row has an error_count that is an
\* integer and is at least 0, for every input with a breakdown row.
C11_ErrorCount ==
    \A i \in 1..Len(new_breakdown_df) :
        /\ new_breakdown_df[i].error_count \in Int
        /\ new_breakdown_df[i].error_count >= 0

----------------------------------------------------------------------------
(* C13 *)

\* All rows the run set out to synthesize have been synthesized.
SynthesisComplete ==
    /\ Len(new_healthy_df) = n_new_healthy
    /\ Len(new_breakdown_df) = (IF CAN_GENERATE_BREAKDOWNS THEN n_new_breakdowns ELSE 0)
    /\ \E i \in 1..Len(printed) : printed[i] = "generated_healthy"

\* C13: the output file is written only by the last step of a run, after
\* both syntheses are complete, with a shuffle of the whole concatenation;
\* no step is taken after it, and a step that ends the run early (missing
\* input, or an error raised while sampling) leaves the output file as it was.
C13_WriteLast ==
    [][ /\ (output_file' # output_file \/ (pc' = "exit" /\ original_file.exists)) =>
              /\ pc = "combine"
              /\ pc' = "exit"
              /\ SynthesisComplete
              /\ final_df' \in Shuffles(df \o new_healthy_df \o new_breakdown_df)
              /\ output_file' = [exists |-> TRUE, rows |-> final_df']
        /\ pc \in {"exit", "raised"} => output_file' = output_file
        /\ pc' = "raised" => output_file' = output_file
        /\ ~original_file.exists => output_file' = output_file ]_vars

C13_Witness ==
    /\ pc = "raised"
    /\ Len(new_healthy_df) >= 1
    /\ CAN_GENERATE_BREAKDOWNS
    /\ output_file \in OutputFiles
    /\ output_file.exists

----------------------------------------------------------------------------
(* C12 *)

\* C12: no step of any run changes the input file; every run loads the same
\* table (the input rows without their date); and when a second or later run
\* writes, the output file it replaces was written by the run before, and the
\* new content is this run's table alone, with the same number of rows and
\* the same number of breakdown rows as the content it replaces.
C12_Rerunnable ==
    [][ /\ original_file' = original_file
        /\ (pc = "start" /\ pc' = "generate_healthy") =>
              df' = [i \in InputIndices |-> OriginalRow(i)]
        /\ (runs >= 2 /\ pc = "combine" /\ pc' = "exit") =>
              /\ output_file.exists
              /\ output_file'.rows = final_df'
              /\ Len(output_file'.rows) = Len(output_file.rows)
              /\ BreakdownCount(output_file'.rows) = BreakdownCount(output_file.rows)
        /\ (runs >= 2 /\ pc' = "raised") => output_file' = output_file ]_vars

C12_Witness ==
    /\ runs = 2
    /\ Wrote
    /\ "date" \in original_file.columns
    /\ Len(output_file.rows) = 2
    /\ BreakdownCount(output_file.rows) = 1

----------------------------------------------------------------------------
(* C14 *)

Answered == response # <<>>

\* C14: the scripts form a pipeline ordered by the files.  A trainer run
\* that finds no dataset exits with status 1 and leaves the model file as it
\* was; an application start that finds no model file exits with status 1
\* with no route registered; the dataset appears only by the generator's
\* save, the model file only by a trainer run that found the dataset, and
\* /predict answers only while the application serves, with the model file,
\* and so the dataset, in place.
C14_OrderedPipeline ==
    [][ /\ (~output_file.exists /\ <<trainer, model_file>>' # <<trainer, model_file>>) =>
              /\ trainer' = "exit1"
              /\ model_file' = model_file
        /\ (~model_file.exists /\ app' # app) =>
              /\ app'.status = "exit1"
              /\ app'.routes = {}
        /\ (~output_file.exists /\ output_file'.exists) =>
              /\ pc = "combine"
              /\ pc' = "exit"
        /\ (~model_file.exists /\ model_file'.exists) =>
              /\ output_file.exists
              /\ trainer' = "saved"
        /\ (~Answered /\ Answered') =>
              /\ app.status = "serving"
              /\ "/predict" \in app.routes
              /\ model_file.exists
              /\ output_file.exists
        /\ app'.status = "serving" => model_file'.exists
        /\ model_file'.exists => output_file'.exists ]_vars

C14_Witness ==
    /\ Answered
    /\ response[1].code = 200
    /\ app.status = "serving"
    /\ trainer = "saved"
    /\ Wrote
    /\ runs = 1

----------------------------------------------------------------------------
(* C15 *)

Range(s) == {s[i] : i \in 1..Len(s)}

\* C15: every answer computed from a parseable request carries exactly one
\* status label, the one the ordered thresholds give for the failure
\* probability, a non-empty findings list and a non-empty next_steps list,
\* and the default step is in next_steps exactly when neither the risk rule
\* nor a sensor rule added a step.
C15_Report ==
    (Answered /\ response[1].request.parseable) =>
        LET r == response[1].result
            p == r.probability_percent
            temperature == response[1].request.temperature
            errors == PyInt(response[1].request.error_count)
            NoRuleAddedAStep ==
                /\ p <= ElevatedPermille
                /\ temperature <= HighTemperature
                /\ errors <= HighErrorCount
        IN /\ response[1].code = 200
           /\ r.status_label \in {"Critical", "High Risk", "Elevated", "Low Risk"}
           /\ r.status_label = "Critical" <=> p > CriticalPermille
           /\ r.status_label = "High Risk" <=>
                 (p <= CriticalPermille /\ p > HighRiskPermille)
           /\ r.status_label = "Elevated" <=>
                 (p <= HighRiskPermille /\ p > ElevatedPermille)
           /\ r.status_label = "Low Risk" <=> p <= ElevatedPermille
           /\ r.findings # <<>>
           /\ r.next_steps # <<>>
           /\ DefaultStep \in Range(r.next_steps) <=> NoRuleAddedAStep
           /\ NoRuleAddedAStep => r.next_steps = <<DefaultStep>>

C15_Witness ==
    /\ Answered
    /\ response[1].code = 200
    /\ response[1].result.probability_percent = ElevatedPermille
    /\ response[1].request.error_count = 105
    /\ response[1].request.temperature = 61
    /\ response[1].result.status_label = "Low Risk"
    /\ response[1].result.findings = <<"LOW RISK", "ELEVATED TEMP", "minor errors logged">>
    /\ response[1].result.next_steps = <<DefaultStep>>

====
